---- MODULE Spec2Model ----
(***************************************************************************)
(* Model of frontend/script.js: the browser page that posts the text field *)
(* to /api/process and renders the JSON answer.  The browser is an event   *)
(* loop: every action below is one turn of it (a listener run to its end   *)
(* or to its next await, or the continuation of an await).                 *)
(*                                                                         *)
(* Text is a sequence of characters.  Strings taken from the backend are   *)
(* leaves of the rendered tree: they are modelled as text without markup.  *)
(* Numbers: a score is an integer count of ten-thousandths, a fraction     *)
(* metric an integer count of hundred-thousandths.                         *)
(***************************************************************************)
EXTENDS Naturals, Sequences, FiniteSets, TLC

VARIABLES
  textInput,         \* textInput.value, a sequence of characters
  clearBtnHidden,    \* clearBtn.classList contains 'hidden'
  targetLangSelect,  \* targetLangSelect.value
  focus,             \* the element that holds the focus
  resultsContainer,  \* what resultsContainer.innerHTML was last set to
  metricsContainer,  \* what metricsContainer.innerHTML was last set to
  handlers,          \* the invocations of handleProcess that passed the guard
  nPosts,            \* network: the number of calls of fetch so far
  sent,              \* network: the calls of fetch made by the last turn
  nSubmits,          \* history: clicks made while the trimmed text was non-empty
  arrived,           \* history: the handler whose answer was handled last, 0 if none
  turn               \* history: the event of the last turn, [ev, h, in]

vars == <<textInput, clearBtnHidden, targetLangSelect, focus, resultsContainer,
          metricsContainer, handlers, nPosts, sent, nSubmits, arrived, turn>>

----------------------------------------------------------------------------
(* Bounds *)

MaxSubmits == 3
MaxItems == 2

----------------------------------------------------------------------------
(* Values *)

WhiteSpace == {" ", "\t"}

\* What the user can put in the text field.
TextValues ==
  { <<>>, <<" ", "\t">>, <<"\t", "a", " ", "b", " ">> }

\* The codes of loadLanguages.
langs == {"en", "hi", "te"}

Undefined == [t |-> "undefined"]

RECURSIVE TrimStart(_)
TrimStart(s) ==
  IF s # <<>> /\ Head(s) \in WhiteSpace THEN TrimStart(Tail(s)) ELSE s

RECURSIVE TrimEnd(_)
TrimEnd(s) ==
  IF s # <<>> /\ s[Len(s)] \in WhiteSpace
  THEN TrimEnd(SubSeq(s, 1, Len(s) - 1))
  ELSE s

\* String.prototype.trim
Trim(s) == TrimEnd(TrimStart(s))

\* Number.prototype.toFixed(3) of a count of ten-thousandths: thousandths.
toFixed3(v) == (v + 5) \div 10

\* (x * 100).toFixed(2) of a count of hundred-thousandths: hundredths of a percent.
toPercent2(v) == (v + 5) \div 10

----------------------------------------------------------------------------
(* Views: what an innerHTML assignment leaves in a container.  `by` is the *)
(* handler that made the assignment (0: the page as loaded); body is the   *)
(* rendered card or grid, a sequence of at most one element.               *)

InitialView == [kind |-> "initial", by |-> 0, body |-> <<>>]
Loader(h) == [kind |-> "loading", by |-> h, body |-> <<>>]
Calculating(h) == [kind |-> "calculating", by |-> h, body |-> <<>>]
BackendError(h) == [kind |-> "error", by |-> h, body |-> <<>>]
Failed(h) == [kind |-> "failed", by |-> h, body |-> <<>>]
ResultCard(h, html) == [kind |-> "success", by |-> h, body |-> html]
MetricsGrid(h, html) == [kind |-> "metrics", by |-> h, body |-> html]

\* ${d.f}: a missing property prints as the text "undefined".
Interp(d, f) == IF f \in DOMAIN d THEN d[f] ELSE "undefined"

\* d.retrieved_items || []
RetrievedItems(d) ==
  IF "retrieved_items" \in DOMAIN d THEN d.retrieved_items ELSE <<>>

\* r.score.toFixed is callable only on a number
ScoreThrows(r) == r.score.t # "number"

\* Mutation of ItemElement: the delay follows the 1-based rank.
ItemElementDelayByRank(r, i) ==
  [ rank |-> i + 1,
    domain |-> r.domain,
    lang |-> r.lang,
    score |-> toFixed3(r.score.v),
    text |-> r.text,
    animationDelay |-> (i + 1) * 120 ]

ItemElement(r, i) ==
  [ rank |-> i + 1,
    domain |-> r.domain,
    lang |-> r.lang,
    score |-> toFixed3(r.score.v),
    text |-> r.text,
    animationDelay |-> i * 120 ]

\* Mutation of NormBlock: the block is shown whenever the property is present.
NormBlockIfPresent(d) ==
  IF "normalized_text" \in DOMAIN d THEN <<d.normalized_text>> ELSE <<>>

\* norm: the normalized-text blocks of the card, none when the property is falsy
NormBlock(d) ==
  IF "normalized_text" \in DOMAIN d /\ d.normalized_text # ""
  THEN <<d.normalized_text>>
  ELSE <<>>

\* ragList: the item elements in array order and, when their join is the empty
\* string, the placeholder
RagList(items) ==
  [ items |-> [k \in 1..Len(items) |-> ItemElement(items[k], k - 1)],
    placeholders |-> IF Len(items) = 0 THEN 1 ELSE 0 ]

\* renderResults: [threw, html]; html is <<>> when it threw before the assignment.
renderResults(d) ==
  LET items == RetrievedItems(d)
      rag == RagList(items)
  IN IF \E k \in 1..Len(items) : ScoreThrows(items[k])
     THEN [threw |-> TRUE, html |-> <<>>]
     ELSE [threw |-> FALSE,
           html |-> << [ badge |-> Interp(d, "detected_language_name"),
                         original |-> Interp(d, "original_text"),
                         norm |-> NormBlock(d),
                         items |-> rag.items,
                         placeholders |-> rag.placeholders,
                         translated |-> Interp(d, "translated_text") ] >>]

\* Mutation of renderMetrics: missing metrics give an empty grid instead of a throw.
renderMetricsTolerant(m) == [threw |-> FALSE, html |-> <<>>]

\* renderMetrics: [threw, html]
renderMetrics(m) ==
  IF m = Undefined
  THEN [threw |-> TRUE, html |-> <<>>]
  ELSE [threw |-> FALSE,
        html |-> << [ bleu |-> m.bleu,
                      comet |-> m.comet,
                      latency_ms |-> m.latency_ms,
                      named_entity_preservation |-> toPercent2(m.named_entity_preservation),
                      toxicity_leakage |-> toPercent2(m.toxicity_leakage) ] >>]

----------------------------------------------------------------------------
(* What the backend can answer *)

Metrics0 ==
  [ bleu |-> 41, comet |-> 80, latency_ms |-> 120,
    named_entity_preservation |-> 95674, toxicity_leakage |-> 1000 ]

ItemA == [domain |-> "health", lang |-> "hi", score |-> [t |-> "number", v |-> 5000], text |-> "ta"]
ItemB == [domain |-> "agri", lang |-> "te", score |-> [t |-> "number", v |-> 8231], text |-> "tb"]
ItemC == [domain |-> "law", lang |-> "en", score |-> Undefined, text |-> "tc"]

Required ==
  [detected_language_name |-> "Hindi", original_text |-> "o", translated_text |-> "tr"]

ItemSeqs(pool) == UNION { [1..n -> pool] : n \in 0..MaxItems }

\* The objects res.json() can yield: each optional property present or absent.
DataOver(pool) ==
  { Required @@ n @@ it @@ m :
      n \in { Required, [normalized_text |-> ""], [normalized_text |-> "nt"] },
      it \in { Required } \cup { [retrieved_items |-> q] : q \in ItemSeqs(pool) },
      m \in { Required, [metrics |-> Metrics0] } }

JsonOf(d) == [tag |-> "json", data |-> <<d>>]
ParseFailure == [tag |-> "parse", data |-> <<>>]
BodyFailure == [tag |-> "network", data |-> <<>>]

\* Every shape, over the three items.
RichBodies == { JsonOf(d) : d \in DataOver({ItemA, ItemB, ItemC}) }

\* One body per way the continuation can go.
Bodies ==
  { ParseFailure, BodyFailure,
    JsonOf(Required @@ [metrics |-> Metrics0]),
    JsonOf(Required @@ [normalized_text |-> "nt", retrieved_items |-> <<ItemA, ItemB>>,
                        metrics |-> Metrics0]),
    JsonOf(Required @@ [retrieved_items |-> <<ItemA>>]),
    JsonOf(Required @@ [retrieved_items |-> <<ItemC>>, metrics |-> Metrics0]) }

\* How the promise of fetch settles: a response with an ok status, a response
\* with another status, a rejection.
FetchOutcomes ==
  { [tag |-> "ok", data |-> <<>>],
    [tag |-> "status", data |-> <<>>],
    [tag |-> "network", data |-> <<>>] }

NoInput == [tag |-> "none", data |-> <<>>]

----------------------------------------------------------------------------
(* State after the page has loaded (DOMContentLoaded has run) *)

Init ==
  /\ textInput = <<>>
  /\ clearBtnHidden = TRUE
  /\ targetLangSelect = ""
  /\ focus = "body"
  /\ resultsContainer = InitialView
  /\ metricsContainer = InitialView
  /\ handlers = <<>>
  /\ nPosts = 0
  /\ sent = <<>>
  /\ nSubmits = 0
  /\ arrived = 0
  /\ turn = [ev |-> "load", h |-> 0, in |-> NoInput]

----------------------------------------------------------------------------
(* Listeners *)

UserTurn == [ev |-> "user", h |-> 0, in |-> NoInput]

\* textInput 'input' listener, after the user changed the value to v
OnInput(v) ==
  /\ textInput' = v
  /\ clearBtnHidden' = (v = <<>>)
  /\ sent' = <<>>
  /\ turn' = UserTurn
  /\ UNCHANGED <<targetLangSelect, focus, resultsContainer, metricsContainer,
                 handlers, nPosts, nSubmits, arrived>>

\* clearBtn 'click' listener
OnClear ==
  /\ textInput' = <<>>
  /\ clearBtnHidden' = TRUE
  /\ focus' = "textInput"
  /\ sent' = <<>>
  /\ turn' = UserTurn
  /\ UNCHANGED <<targetLangSelect, resultsContainer, metricsContainer,
                 handlers, nPosts, nSubmits, arrived>>

\* The user picks an option of the select (the placeholder option is disabled).
SelectLang(l) ==
  /\ targetLangSelect' = l
  /\ sent' = <<>>
  /\ turn' = UserTurn
  /\ UNCHANGED <<textInput, clearBtnHidden, focus, resultsContainer, metricsContainer,
                 handlers, nPosts, nSubmits, arrived>>

\* The user moves the focus into the text field or out of it.
MoveFocus(e) ==
  /\ focus' = e
  /\ sent' = <<>>
  /\ turn' = UserTurn
  /\ UNCHANGED <<textInput, clearBtnHidden, targetLangSelect, resultsContainer,
                 metricsContainer, handlers, nPosts, nSubmits, arrived>>

\* A handler suspended at `await fetch(...)`.
Running(wrote) == [pc |-> "fetch", settled |-> "pending", wrote |-> wrote]

\* Mutation of handleProcess: the guard and the payload use the raw value.
handleProcessUntrimmed ==
  LET h == Len(handlers) + 1
  IN IF textInput = <<>>
     THEN /\ focus' = "textInput"
          /\ sent' = <<>>
          /\ UNCHANGED <<resultsContainer, metricsContainer, handlers, nPosts>>
     ELSE /\ resultsContainer' = Loader(h)
          /\ metricsContainer' = Calculating(h)
          /\ nPosts' = nPosts + 1
          /\ sent' = << [ body |-> [text |-> textInput, target_lang |-> targetLangSelect],
                          by |-> h,
                          onScreen |-> <<Loader(h), Calculating(h)>> ] >>
          /\ handlers' = Append(handlers, Running(<<"loading">>))
          /\ UNCHANGED focus

\* Mutation of handleProcess: fetch is called before the placeholders are written.
handleProcessFetchFirst ==
  LET text == Trim(textInput)
      h == Len(handlers) + 1
  IN IF text = <<>>
     THEN /\ focus' = "textInput"
          /\ sent' = <<>>
          /\ UNCHANGED <<resultsContainer, metricsContainer, handlers, nPosts>>
     ELSE /\ nPosts' = nPosts + 1
          /\ sent' = << [ body |-> [text |-> text, target_lang |-> targetLangSelect],
                          by |-> h,
                          onScreen |-> <<resultsContainer, metricsContainer>> ] >>
          /\ resultsContainer' = Loader(h)
          /\ metricsContainer' = Calculating(h)
          /\ handlers' = Append(handlers, Running(<<"loading">>))
          /\ UNCHANGED focus

\* handleProcess up to its first await: the guard, the placeholders, the call of fetch.
handleProcess ==
  LET text == Trim(textInput)
      h == Len(handlers) + 1
      loading == Loader(h)
      calculating == Calculating(h)
      payload == [text |-> text, target_lang |-> targetLangSelect]
  IN IF text = <<>>
     THEN /\ focus' = "textInput"
          /\ sent' = <<>>
          /\ UNCHANGED <<resultsContainer, metricsContainer, handlers, nPosts>>
     ELSE /\ resultsContainer' = loading
          /\ metricsContainer' = calculating
          /\ nPosts' = nPosts + 1
          /\ sent' = << [ body |-> payload, by |-> h,
                          onScreen |-> <<loading, calculating>> ] >>
          /\ handlers' = Append(handlers, Running(<<"loading">>))
          /\ UNCHANGED focus

\* processBtn 'click' listener
OnProcessClick ==
  /\ Trim(textInput) # <<>> => nSubmits < MaxSubmits
  /\ nSubmits' = nSubmits + (IF Trim(textInput) # <<>> THEN 1 ELSE 0)
  /\ handleProcess
  /\ turn' = [ev |-> "click", h |-> 0, in |-> NoInput]
  /\ UNCHANGED <<textInput, clearBtnHidden, targetLangSelect, arrived>>

\* Mutation of Catch: the failed request is sent again.
CatchRetry(h, wrote) ==
  /\ resultsContainer' = BackendError(h)
  /\ metricsContainer' = Failed(h)
  /\ handlers' = [handlers EXCEPT ![h] =
                    [pc |-> "done", settled |-> "fulfilled",
                     wrote |-> Append(wrote, "error")]]
  /\ sent' = << [ body |-> [text |-> Trim(textInput), target_lang |-> targetLangSelect],
                  by |-> h,
                  onScreen |-> <<BackendError(h), Failed(h)>> ] >>
  /\ nPosts' = nPosts + 1

\* Mutation of Catch: the error is only logged.
CatchSilent(h, wrote) ==
  /\ handlers' = [handlers EXCEPT ![h] =
                    [pc |-> "done", settled |-> "fulfilled", wrote |-> wrote]]
  /\ sent' = <<>>
  /\ UNCHANGED <<resultsContainer, metricsContainer, nPosts>>

\* The catch block of handleProcess; the async function then returns normally.
Catch(h, wrote) ==
  /\ resultsContainer' = BackendError(h)
  /\ metricsContainer' = Failed(h)
  /\ handlers' = [handlers EXCEPT ![h] =
                    [pc |-> "done", settled |-> "fulfilled",
                     wrote |-> Append(wrote, "error")]]
  /\ sent' = <<>>
  /\ UNCHANGED nPosts

\* Mutation of AfterFetch: res.ok is not looked at.
AfterFetchNoStatusCheck(h, outcome) ==
  IF outcome.tag \in {"ok", "status"}
  THEN /\ handlers' = [handlers EXCEPT ![h].pc = "json"]
       /\ sent' = <<>>
       /\ UNCHANGED <<resultsContainer, metricsContainer, nPosts>>
  ELSE Catch(h, handlers[h].wrote)

\* handleProcess from the await of fetch to the await of res.json()
AfterFetch(h, outcome) ==
  IF outcome.tag = "ok"
  THEN /\ handlers' = [handlers EXCEPT ![h].pc = "json"]
       /\ sent' = <<>>
       /\ UNCHANGED <<resultsContainer, metricsContainer, nPosts>>
  ELSE Catch(h, handlers[h].wrote)

\* What AfterJson does with a body that renders.
RenderBoth(h, rr, rm) ==
  /\ resultsContainer' = ResultCard(h, rr.html)
  /\ metricsContainer' = MetricsGrid(h, rm.html)
  /\ handlers' = [handlers EXCEPT ![h] =
                    [pc |-> "done", settled |-> "fulfilled",
                     wrote |-> Append(handlers[h].wrote, "success")]]
  /\ sent' = <<>>
  /\ UNCHANGED nPosts

\* Mutation of AfterJson: the catch block leaves the results area alone.
AfterJsonPartial(h, b) ==
  IF b.tag # "json"
  THEN Catch(h, handlers[h].wrote)
  ELSE LET d == b.data[1]
           rr == renderResults(d)
           rm == renderMetrics(IF "metrics" \in DOMAIN d THEN d.metrics ELSE Undefined)
       IN IF rr.threw
          THEN Catch(h, handlers[h].wrote)
          ELSE IF rm.threw
          THEN /\ resultsContainer' = ResultCard(h, rr.html)
               /\ metricsContainer' = Failed(h)
               /\ handlers' = [handlers EXCEPT ![h] =
                                 [pc |-> "done", settled |-> "fulfilled",
                                  wrote |-> Append(handlers[h].wrote, "success")]]
               /\ sent' = <<>>
               /\ UNCHANGED nPosts
          ELSE RenderBoth(h, rr, rm)

\* Mutation of AfterJson: the answer of a superseded request is dropped.
AfterJsonDropStale(h, b) ==
  IF h # Len(handlers)
  THEN /\ handlers' = [handlers EXCEPT ![h] =
                         [pc |-> "done", settled |-> "fulfilled",
                          wrote |-> handlers[h].wrote]]
       /\ sent' = <<>>
       /\ UNCHANGED <<resultsContainer, metricsContainer, nPosts>>
  ELSE IF b.tag # "json"
  THEN Catch(h, handlers[h].wrote)
  ELSE LET d == b.data[1]
           rr == renderResults(d)
           rm == renderMetrics(IF "metrics" \in DOMAIN d THEN d.metrics ELSE Undefined)
       IN IF rr.threw
          THEN Catch(h, handlers[h].wrote)
          ELSE IF rm.threw
          THEN Catch(h, Append(handlers[h].wrote, "success"))
          ELSE RenderBoth(h, rr, rm)

\* handleProcess from the await of res.json() to its end
AfterJson(h, b) ==
  IF b.tag # "json"
  THEN Catch(h, handlers[h].wrote)
  ELSE LET d == b.data[1]
           rr == renderResults(d)
           rm == renderMetrics(IF "metrics" \in DOMAIN d THEN d.metrics ELSE Undefined)
       IN IF rr.threw
          THEN Catch(h, handlers[h].wrote)
          ELSE IF rm.threw
          THEN Catch(h, Append(handlers[h].wrote, "success"))
          ELSE RenderBoth(h, rr, rm)

\* The promise of fetch of handler h settles.
FetchSettles(h, outcome) ==
  /\ h \in 1..Len(handlers)
  /\ handlers[h].pc = "fetch"
  /\ AfterFetch(h, outcome)
  /\ arrived' = IF outcome.tag = "ok" THEN arrived ELSE h
  /\ turn' = [ev |-> "response", h |-> h, in |-> outcome]
  /\ UNCHANGED <<textInput, clearBtnHidden, targetLangSelect, focus, nSubmits>>

\* The promise of res.json() of handler h settles with body b.
JsonSettles(h, b) ==
  /\ h \in 1..Len(handlers)
  /\ handlers[h].pc = "json"
  /\ AfterJson(h, b)
  /\ arrived' = h
  /\ turn' = [ev |-> "body", h |-> h, in |-> b]
  /\ UNCHANGED <<textInput, clearBtnHidden, targetLangSelect, focus, nSubmits>>

UserInput == \E v \in TextValues : OnInput(v)
UserSelect == \E l \in langs : SelectLang(l)
UserFocus == \E e \in {"textInput", "body"} : MoveFocus(e)
Response == \E h \in 1..MaxSubmits, o \in FetchOutcomes : FetchSettles(h, o)
Body == \E h \in 1..MaxSubmits, b \in Bodies : JsonSettles(h, b)

Next ==
  \/ UserInput
  \/ OnClear
  \/ UserSelect
  \/ UserFocus
  \/ OnProcessClick
  \/ Response
  \/ Body

Spec == Init /\ [][Next]_vars

\* Submissions under the assumption that every request is answered: a pending
\* promise settles.
\* Typing, submitting and the answers: the turns that write the two areas.
NextSubmit ==
  \/ UserInput
  \/ OnProcessClick
  \/ Response
  \/ Body

FairSpec ==
  /\ Init
  /\ [][NextSubmit]_vars
  /\ \A h \in 1..MaxSubmits :
       /\ WF_vars(\E o \in FetchOutcomes : FetchSettles(h, o))
       /\ WF_vars(\E b \in Bodies : JsonSettles(h, b))

\* The rendering of the first submission's answer, over every shape of body.
RichBody == \E b \in RichBodies : JsonSettles(1, b)

NextRender ==
  \/ UserInput
  \/ OnProcessClick
  \/ Response
  \/ RichBody

SpecRender == Init /\ [][NextRender]_vars

----------------------------------------------------------------------------
(* Properties *)

Last(q) == q[Len(q)]
Answered(h) == handlers[h].pc = "done"
AllAnswered == \A h \in 1..Len(handlers) : Answered(h)
Failure == {"status", "network", "parse"}

\* The data of the body handled by the last turn.
TurnData == turn.in.data[1]
JsonTurn == turn.ev = "body" /\ turn.in.tag = "json"

\* The body renders: every score is a number and the metrics are there.
Renders(d) ==
  /\ "metrics" \in DOMAIN d
  /\ \A k \in 1..Len(RetrievedItems(d)) : RetrievedItems(d)[k].score.t = "number"

\* C1: the number of POSTs is the number of clicks made while the trimmed text
\* was non-empty; such a click sends one POST with text = the trimmed value and
\* target_lang = the selection, and no other turn (a failure's included) sends one.
C1_OnePostPerSubmit ==
  /\ [](nPosts = nSubmits)
  /\ [][ IF turn'.ev = "click" /\ Trim(textInput) # <<>>
         THEN /\ nPosts' = nPosts + 1
              /\ Len(sent') = 1
              /\ sent'[1].body = [text |-> Trim(textInput), target_lang |-> targetLangSelect]
         ELSE /\ nPosts' = nPosts
              /\ sent' = <<>> ]_vars

\* C1 witness: a POST with the trimmed text and no language chosen, sent after
\* the first request failed.
C1_Witness ==
  /\ turn.ev = "click"
  /\ nPosts = 2
  /\ handlers[1].wrote = <<"loading", "error">>
  /\ textInput = <<"\t", "a", " ", "b", " ">>
  /\ Len(sent) = 1
  /\ sent[1].body = [text |-> <<"a", " ", "b">>, target_lang |-> ""]

\* C2: a click while the text is empty or whitespace sends nothing, puts the
\* focus in the text field and leaves both areas and the handlers as they were.
C2_EmptyClickIsSilent ==
  [][ (turn'.ev = "click" /\ Trim(textInput) = <<>>)
      => /\ nPosts' = nPosts
         /\ sent' = <<>>
         /\ focus' = "textInput"
         /\ resultsContainer' = resultsContainer
         /\ metricsContainer' = metricsContainer
         /\ handlers' = handlers ]_vars

\* C2 witness: a click on whitespace while the second request is in flight and
\* the first request's result is on screen.
C2_Witness ==
  /\ turn.ev = "click"
  /\ textInput = <<" ", "\t">>
  /\ focus = "textInput"
  /\ Len(handlers) = 2
  /\ handlers[2].pc = "fetch"
  /\ resultsContainer.kind = "success"
  /\ resultsContainer.by = 1

\* C3: a turn that handles a non-ok status, a rejection or a parse failure
\* leaves the backend-error message and "Failed", whichever the cause; the
\* handler never wrote a success view and its promise is fulfilled.
C3_FailureIsAbsorbed ==
  [][ (turn'.ev \in {"response", "body"} /\ turn'.in.tag \in Failure)
      => /\ resultsContainer' = BackendError(turn'.h)
         /\ metricsContainer' = Failed(turn'.h)
         /\ handlers'[turn'.h] =
              [pc |-> "done", settled |-> "fulfilled", wrote |-> <<"loading", "error">>] ]_vars

\* C3 witness: the parse failure of the first request, handled after a second
\* submission.
C3_Witness ==
  /\ turn.ev = "body"
  /\ turn.in.tag = "parse"
  /\ turn.h = 1
  /\ Len(handlers) = 2
  /\ resultsContainer = BackendError(1)
  /\ metricsContainer = Failed(1)

\* C4: between turns both areas were written by the same handler and show the
\* same kind of view: both placeholders, both the success view of one answered
\* response, or both the error view (both untouched before the first submission).
C4_RenderedAtomically ==
  LET pair == <<resultsContainer.kind, metricsContainer.kind>>
      h == resultsContainer.by
  IN /\ metricsContainer.by = h
     /\ pair \in { <<"initial", "initial">>, <<"loading", "calculating">>,
                   <<"success", "metrics">>, <<"error", "failed">> }
     /\ (pair = <<"initial", "initial">>) = (nSubmits = 0)
     /\ pair = <<"success", "metrics">> => handlers[h].wrote = <<"loading", "success">>
     /\ pair = <<"error", "failed">> => Last(handlers[h].wrote) = "error"

\* C4 witness: the first request's answer rendered its results and then failed
\* on the metrics, while a second request was in flight.
C4_Witness ==
  /\ Len(handlers) = 2
  /\ handlers[2].pc = "json"
  /\ handlers[1].wrote = <<"loading", "success", "error">>
  /\ resultsContainer = BackendError(1)
  /\ metricsContainer = Failed(1)

\* C5: the turn of a click on non-empty text leaves both placeholders on
\* screen with the request in flight, and they were already there when fetch
\* was called.
C5_PlaceholdersBeforePost ==
  [][ (turn'.ev = "click" /\ Trim(textInput) # <<>>)
      => /\ Len(sent') = 1
         /\ sent'[1].by = Len(handlers) + 1
         /\ sent'[1].onScreen = <<Loader(sent'[1].by), Calculating(sent'[1].by)>>
         /\ resultsContainer' = Loader(sent'[1].by)
         /\ metricsContainer' = Calculating(sent'[1].by)
         /\ handlers'[sent'[1].by].pc = "fetch" ]_vars

\* C5 witness: the second submission, made while the first one's result was shown.
C5_Witness ==
  /\ turn.ev = "click"
  /\ Len(sent) = 1
  /\ sent[1].by = 2
  /\ handlers[1].wrote = <<"loading", "success">>
  /\ handlers[2].pc = "fetch"
  /\ resultsContainer = Loader(2)
  /\ metricsContainer = Calculating(2)

\* C6: once every request is answered, every handler has rendered its outcome
\* and both areas show the outcome of the answer handled last.
C6_LastAnswerWins ==
  (Len(handlers) > 0 /\ AllAnswered)
  => /\ arrived \in 1..Len(handlers)
     /\ resultsContainer.by = arrived
     /\ metricsContainer.by = arrived
     /\ resultsContainer.kind = Last(handlers[arrived].wrote)
     /\ \A h \in 1..Len(handlers) : Last(handlers[h].wrote) \in {"success", "error"}

\* C6 witness: the older request's answer came last and replaced the result the
\* newer request had rendered.
C6_Witness ==
  /\ Len(handlers) = 2
  /\ AllAnswered
  /\ arrived = 1
  /\ handlers[2].wrote = <<"loading", "success">>
  /\ resultsContainer.kind = "success"
  /\ resultsContainer.by = 1

\* C7: a body that renders gives a card with the badge, the original text and
\* the translated text, and with the normalized-text block exactly when
\* normalized_text is present and non-empty.
C7_NormBlockIffNonEmpty ==
  (JsonTurn /\ Renders(TurnData))
  => /\ resultsContainer.kind = "success"
     /\ resultsContainer.by = turn.h
     /\ LET d == TurnData
            card == resultsContainer.body[1]
            shown == "normalized_text" \in DOMAIN d /\ d.normalized_text # ""
        IN /\ Len(card.norm) = (IF shown THEN 1 ELSE 0)
           /\ shown => card.norm[1] = d.normalized_text
           /\ card.badge = d.detected_language_name
           /\ card.original = d.original_text
           /\ card.translated = d.translated_text

\* C7 witness: a rendered body whose normalized_text is the empty string.
C7_Witness ==
  /\ JsonTurn
  /\ Renders(TurnData)
  /\ "normalized_text" \in DOMAIN TurnData
  /\ TurnData.normalized_text = ""
  /\ resultsContainer.kind = "success"
  /\ resultsContainer.body[1].norm = <<>>

\* C8: a body that renders gives one placeholder and no item element when
\* retrieved_items is empty or absent; otherwise no placeholder and one element
\* per item, in the order sent, the item at 0-based index i with rank i + 1 and
\* a delay of i * 120 ms.
C8_ItemsInBackendOrder ==
  (JsonTurn /\ Renders(TurnData))
  => /\ resultsContainer.kind = "success"
     /\ LET d == TurnData
            card == resultsContainer.body[1]
            sentItems == IF "retrieved_items" \in DOMAIN d THEN d.retrieved_items ELSE <<>>
        IN /\ Len(card.items) = Len(sentItems)
           /\ card.placeholders = (IF Len(sentItems) = 0 THEN 1 ELSE 0)
           /\ \A k \in 1..Len(sentItems) :
                /\ card.items[k].text = sentItems[k].text
                /\ card.items[k].domain = sentItems[k].domain
                /\ card.items[k].lang = sentItems[k].lang
                /\ card.items[k].rank = k
                /\ card.items[k].animationDelay = (k - 1) * 120

\* C8 witness: two items sent in ascending order of score are shown in that order.
C8_Witness ==
  /\ JsonTurn
  /\ Renders(TurnData)
  /\ "retrieved_items" \in DOMAIN TurnData
  /\ TurnData.retrieved_items = <<ItemA, ItemB>>
  /\ resultsContainer.kind = "success"
  /\ resultsContainer.body[1].items[2].text = "tb"
  /\ resultsContainer.body[1].items[2].animationDelay = 120

\* C9: a parsed body that cannot be rendered ends in the error view in both
\* areas with the handler's promise fulfilled; when only the metrics are missing
\* the success results were written first and then overwritten.
C9_RenderFailureIsAbsorbed ==
  (JsonTurn /\ ~Renders(TurnData))
  => /\ resultsContainer = BackendError(turn.h)
     /\ metricsContainer = Failed(turn.h)
     /\ handlers[turn.h].pc = "done"
     /\ handlers[turn.h].settled = "fulfilled"
     /\ handlers[turn.h].wrote =
          (IF \A k \in 1..Len(RetrievedItems(TurnData)) :
                RetrievedItems(TurnData)[k].score.t = "number"
           THEN <<"loading", "success", "error">>
           ELSE <<"loading", "error">>)

\* C9 witness: a body with items and no metrics.
C9_Witness ==
  /\ JsonTurn
  /\ "metrics" \notin DOMAIN TurnData
  /\ "retrieved_items" \in DOMAIN TurnData
  /\ Len(TurnData.retrieved_items) = 2
  /\ handlers[turn.h].wrote = <<"loading", "success", "error">>
  /\ resultsContainer = BackendError(turn.h)

\* C10, as stated: with every request answered and at least one submission
\* made, neither area shows its placeholder; and while a request is unanswered
\* the placeholders are on screen.
C10_PlaceholdersWhileUnanswered ==
  /\ (nSubmits > 0 /\ AllAnswered)
     => /\ resultsContainer.kind \in {"success", "error"}
        /\ metricsContainer.kind \in {"metrics", "failed"}
  /\ ~AllAnswered
     => /\ resultsContainer.kind = "loading"
        /\ metricsContainer.kind = "calculating"

\* C10, amended: with every request answered and at least one submission made,
\* neither area shows its placeholder; placeholders on screen belong to a request
\* still unanswered; the areas change only in the turn of a click or of an
\* answer (no timeout); and, answers assumed to arrive, unanswered requests lead
\* to a state where every submission has written a success or error view.
C10_NoPlaceholderOnceAnswered ==
  /\ []((nSubmits > 0 /\ AllAnswered)
        => /\ resultsContainer.kind \in {"success", "error"}
           /\ metricsContainer.kind \in {"metrics", "failed"})
  /\ [](resultsContainer.kind = "loading"
        => /\ metricsContainer.kind = "calculating"
           /\ ~Answered(resultsContainer.by))
  /\ [][ (resultsContainer' # resultsContainer \/ metricsContainer' # metricsContainer)
         => turn'.ev \in {"click", "response", "body"} ]_vars
  /\ (~AllAnswered)
       ~> (AllAnswered /\ \A h \in 1..Len(handlers) :
                            Last(handlers[h].wrote) \in {"success", "error"})

\* C10 witness: the newer request is unanswered while the areas show the
\* outcome of the older one, whose answer replaced the placeholders.
C10_Witness ==
  /\ Len(handlers) = 2
  /\ Answered(1)
  /\ ~Answered(2)
  /\ resultsContainer = BackendError(1)
  /\ metricsContainer = Failed(1)

====
